---- MODULE Spec2Model ----
(***************************************************************************)
(* moment::Signal / moment::Connection (moment/include/moment/Signal.hpp). *)
(*                                                                         *)
(* A Signal owns a mutex, a vector of shared connection records and a      *)
(* _valid flag (false once moved from).  A record (ConnectionData) owns a  *)
(* mutex, a raw back pointer to its Signal, a _valid flag, the slot and a  *)
(* 32-bit id.  Every thread is a program counter walking through one       *)
(* operation at a time; a step is the code from one mutex acquisition up   *)
(* to the next one.                                                        *)
(***************************************************************************)
EXTENDS Integers, Sequences, FiniteSets, TLC

\* Storage locations that can hold a Signal<void(int)>.
NumSigs == 2
\* Connection records the program may create.
MaxRecs == 3
\* Threads of the program: the first one runs the sequential program, the others
\* are the workers of the concurrent one.
NumThreads == 3

Sigs == 1..NumSigs
Recs == 1..MaxRecs
Threads == 1..NumThreads
SeqThreads == {1}
Workers == Threads \ SeqThreads
\* Values passed to an emission.
Args == {0, 1}
\* What a connected slot does when it is called.
SlotKinds == {"plain", "disconnectSelf"}
\* Further slots: one that throws, one that calls valid() on its own Connection.
FailingKinds == {"throws", "validSelf"}
\* A member function connected through connect(Obj*, MemFunc Obj::*) or through
\* connect(Obj*, MemFunc&&) with a std::mem_fn.
BindKinds == {"memberPtr", "memFn"}
\* The slots whose call returns normally.
ReturningKinds == {"plain"} \cup BindKinds
\* Target objects of bound member functions.
Objs == {1, 2}
\* Argument lists passed to an emission of a Signal<void(int, int)>.
ArgLists == {<<0, 1>>, <<1, 0>>}
\* Records the concurrent program may create.
MaxRecsMT == 2

\* The id counter is a uint64_t and a record's id a uint32_t: both are kept as
\* little-endian sequences of 16-bit limbs, which keeps the exact widths.
CounterBits == 64
IdBits == 32
LimbBits == IdBits \div 2
LimbBase == 2 ^ LimbBits
CounterLimbs == CounterBits \div LimbBits
IdLimbs == IdBits \div LimbBits
Zero64 == [i \in 1..CounterLimbs |-> 0]
Zero32 == [i \in 1..IdLimbs |-> 0]

\* id++ on the uint64_t: the next value, wrapping at 2^64.
IncrementNot(c) == c
Increment(c) ==
    LET full == {i \in 1..Len(c) : \A j \in 1..i : c[j] = LimbBase - 1}
    IN  [i \in 1..Len(c) |->
            IF i \in full THEN 0
            ELSE IF (i - 1) \in full \/ i = 1 THEN c[i] + 1
            ELSE c[i]]

\* Passing the uint64_t as the uint32_t id parameter keeps the low 32 bits.
Uint32(c) == SubSeq(c, 1, IdLimbs)

\* n executions of id++ on the uint64_t: c + n, wrapping at 2^64.
RECURSIVE AddLimbs(_, _, _)
AddLimbs(c, n, carry) ==
    IF c = <<>> THEN <<>>
    ELSE LET sum == Head(c) + Head(n) + carry
         IN  <<sum % LimbBase>> \o AddLimbs(Tail(c), Tail(n), sum \div LimbBase)

Plus(c, n) == AddLimbs(c, n, 0)

\* Numbers of connects a long-running program makes between two connections it
\* keeps: 2^32 - 2 and 2^32 - 1.
Batches == {<<LimbBase - 2, LimbBase - 1, 0, 0>>, <<LimbBase - 1, LimbBase - 1, 0, 0>>}

\* The counter is below 2^32: fewer than 2^32 records have been created.
Below32(c) == \A i \in (IdLimbs + 1)..Len(c) : c[i] = 0

VARIABLES
    assertsOn,      \* the build keeps assert() (NDEBUG not defined)
    sigAlive,       \* a Signal object lives at the location
    sigValid,       \* Signal::_valid
    sigConns,       \* Signal::_connections
    sigLock,        \* Signal::_stateMutex: 0 or the owning thread
    nRecs,          \* records created so far
    recValid,       \* ConnectionData::_valid
    recSignal,      \* ConnectionData::_signal (raw pointer: a location)
    recLock,        \* ConnectionData::_stateMutex: 0 or the owning thread
    recId,          \* ConnectionData::_id
    recSlot,        \* behaviour of ConnectionData::_slot
    idCounter,      \* static std::atomic<uint64_t> id of connectLocked
    pc,             \* position of each thread
    cur,            \* the operation a thread is in (or has just finished)
    res,            \* outcome of the last finished operation
    snap,           \* the collection the operation saw when it got the lock
    log,            \* slot invocations of the thread's last emission
    halted,         \* the process ended: "no", "assert", "crash"
    disconnected,   \* records a disconnect call has returned true for
    cleared         \* records that were in a collection when disconnectAllLocked ran on it
                    \* (Signal::disconnect(), ~Signal, the target of a move)

vars == <<assertsOn, sigAlive, sigValid, sigConns, sigLock, nRecs, recValid,
          recSignal, recLock, recId, recSlot, idCounter, pc, cur, res, snap,
          log, halted, disconnected, cleared>>

sigVars == <<sigAlive, sigValid, sigConns, sigLock>>
recVars == <<nRecs, recValid, recSignal, recLock, recId, recSlot, idCounter>>
histVars == <<disconnected, cleared>>

NoOp == [op |-> "none", sig |-> 0, src |-> 0, rec |-> 0, arg |-> 0, kind |-> "none",
         obj |-> 0, idx |-> 0, pre |-> FALSE]

\* A slot: what it does when called and, for a bound member function, its target.
NoSlot == [kind |-> "none", obj |-> 0]

Created == 1..nRecs

\* Connects that have begun and not yet built their record.
Pending == Cardinality({u \in Threads : pc[u] = "connect"})

----------------------------------------------------------------------------
\* Pure helpers of the code.

\* forEachConnection visits rbegin..rend: the k-th record visited.
ForEachOrderForward(conns) == conns
forEachOrder(conns) == [k \in 1..Len(conns) |-> conns[Len(conns) + 1 - k]]

\* The records the loop of forEachConnection reaches before I == rend().
VisitsAllButLast(conns) == IF Len(conns) > 0 THEN Len(conns) - 1 ELSE 0
Visits(conns) == Len(conns)

\* std::find(begin, end, sharedData()): first index holding the record, 0 for end().
FindFirstAlways(conns, r) == IF Len(conns) > 0 THEN 1 ELSE 0
Find(conns, r) ==
    IF \E i \in 1..Len(conns) : conns[i] = r
    THEN CHOOSE i \in 1..Len(conns) :
            /\ conns[i] = r
            /\ \A j \in 1..(i - 1) : conns[j] # r
    ELSE 0

\* vector::erase(I)
EraseNothing(conns, i) == conns
Erase(conns, i) == [k \in 1..(Len(conns) - 1) |-> IF k < i THEN conns[k] ELSE conns[k + 1]]

\* vector::clear()
ClearNothing(conns) == conns
Clear(conns) == <<>>

\* ConnectionData::invalidate: _valid = false
InvalidateNot(rv, r) == rv
invalidate(rv, r) == [rv EXCEPT ![r] = FALSE]

\* ConnectionData::valid
valid(r) == recValid[r]

\* ConnectionData::updateSignal: _signal = signal
UpdateSignalNot(rs, r, s) == rs
updateSignal(rs, r, s) == [rs EXCEPT ![r] = s]

SeqToSet(q) == {q[i] : i \in 1..Len(q)}

\* std::make_index_sequence<sizeof...(Params)>: the indices 0 .. n - 1.
IndexSequenceReversed(n) == [i \in 1..n |-> n - i]
IndexSequence(n) == [i \in 1..n |-> i - 1]

\* std::is_placeholder<PlaceholderTemplate<N>>: std::placeholders count from one.
IsPlaceholder(N) == N + 1

\* What the target of a slot receives when the slot is called with args.
\*   memberPtr: std::bind(memFunc, object, PlaceholderTemplate<Indices>{}...), the
\*              i-th parameter of memFunc is the argument its placeholder names;
\*   memFn:     [object, memFunc](Params... params) { memFunc(object, params...); }
\*   a callable connected as it is receives the arguments themselves.
Invoke(slot, args) ==
    CASE slot.kind = "memberPtr" ->
            <<slot.obj, [i \in 1..Len(args) |->
                            args[IsPlaceholder(IndexSequence(Len(args))[i])]]>>
      [] slot.kind = "memFn" -> <<slot.obj, args>>
      [] OTHER -> args

\* StateLock lock{_stateMutex}: the constructor of std::lock_guard returns once no
\* thread owns mutex m of the family lock (sigLock or recLock).
FreeAlways(lock, m) == TRUE
Free(lock, m) == lock[m] = 0

----------------------------------------------------------------------------
Init ==
    /\ assertsOn \in BOOLEAN
    /\ sigAlive = [s \in Sigs |-> TRUE]
    /\ sigValid = [s \in Sigs |-> TRUE]
    /\ sigConns = [s \in Sigs |-> <<>>]
    /\ sigLock = [s \in Sigs |-> 0]
    /\ nRecs = 0
    /\ recValid = [r \in Recs |-> FALSE]
    /\ recSignal = [r \in Recs |-> 0]
    /\ recLock = [r \in Recs |-> 0]
    /\ recId = [r \in Recs |-> Zero32]
    /\ recSlot = [r \in Recs |-> NoSlot]
    /\ idCounter = Zero64
    /\ pc = [t \in Threads |-> "idle"]
    /\ cur = [t \in Threads |-> NoOp]
    /\ res = [t \in Threads |-> "none"]
    /\ snap = [t \in Threads |-> <<>>]
    /\ log = [t \in Threads |-> <<>>]
    /\ halted = "no"
    /\ disconnected = {}
    /\ cleared = {}

Running == halted = "no"

\* A thread begins an operation: its frame is set, the previous outcome forgotten.
Begin(t, frame, first) ==
    /\ Running
    /\ pc[t] = "idle"
    /\ pc' = [pc EXCEPT ![t] = first]
    /\ cur' = [cur EXCEPT ![t] = frame]
    /\ res' = [res EXCEPT ![t] = "none"]
    /\ snap' = [snap EXCEPT ![t] = <<>>]
    /\ log' = [log EXCEPT ![t] = <<>>]

\* A thread's operation ends with outcome v and final frame f. What the sequential
\* thread has just finished stays visible until its next operation; a worker's
\* frame is dropped when its operation ends.
ReturnFrame(t, v, f) ==
    /\ pc' = [pc EXCEPT ![t] = "idle"]
    /\ res' = [res EXCEPT ![t] = IF t \in SeqThreads THEN v ELSE "none"]
    /\ cur' = [cur EXCEPT ![t] = IF t \in SeqThreads THEN f ELSE NoOp]
    /\ snap' = [snap EXCEPT ![t] = IF t \in SeqThreads THEN @ ELSE <<>>]
    /\ log' = [log EXCEPT ![t] = IF t \in SeqThreads THEN @ ELSE <<>>]

Return(t, v) == ReturnFrame(t, v, cur[t])

\* assert(cond): passes, or ends the process when the build keeps assertions.
AssertFails(cond) == ~cond /\ assertsOn

Halt(why) ==
    /\ halted' = why
    /\ UNCHANGED <<assertsOn, sigVars, recVars, pc, cur, res, snap, log, histVars>>

\* Thread u is inside an operation on the Signal at s.
Uses(u, s) == pc[u] # "idle" /\ (cur[u].sig = s \/ cur[u].src = s)

\* The Signal at s is alive and its destructor has not been entered: the program
\* may begin an operation on it.
Live(s) == sigAlive[s] /\ \A u \in Threads : ~(Uses(u, s) /\ cur[u].op = "destroy")

----------------------------------------------------------------------------
\* Signal() = default, at a location that holds no Signal.
Construct(t, s) ==
    /\ ~sigAlive[s]
    /\ \A u \in Threads : pc[u] = "idle"
    /\ Begin(t, [NoOp EXCEPT !.op = "construct", !.sig = s], "idle")
    /\ sigAlive' = [sigAlive EXCEPT ![s] = TRUE]
    /\ sigValid' = [sigValid EXCEPT ![s] = TRUE]
    /\ sigConns' = [sigConns EXCEPT ![s] = <<>>]
    /\ sigLock' = [sigLock EXCEPT ![s] = 0]
    /\ UNCHANGED <<assertsOn, recVars, halted, histVars>>

----------------------------------------------------------------------------
\* Signal::connect(Slot&&) and connectLocked.
StartConnect(t, s, k) ==
    /\ Live(s)
    /\ nRecs + Pending < MaxRecs
    /\ Begin(t, [NoOp EXCEPT !.op = "connect", !.sig = s, !.kind = k], "connect")
    /\ UNCHANGED <<assertsOn, sigVars, recVars, halted, histVars>>

\* connect(Obj* object, MemFunc Obj::*memFunc) and connect(Obj* object, MemFunc&&
\* memFunc): connectBind builds the slot and passes it to connect(Slot&&).
StartConnectMember(t, s, o, how) ==
    /\ Live(s)
    /\ nRecs + Pending < MaxRecs
    /\ Begin(t, [NoOp EXCEPT !.op = "connect", !.sig = s, !.kind = how, !.obj = o],
             "connect")
    /\ UNCHANGED <<assertsOn, sigVars, recVars, halted, histVars>>

ConnectLocked(t) ==
    LET s == cur[t].sig
        r == nRecs + 1
    IN  /\ Running
        /\ pc[t] = "connect"
        /\ Free(sigLock, s)
        /\ IF AssertFails(sigValid[s])
           THEN Halt("assert")
           ELSE /\ nRecs' = r
                /\ idCounter' = Increment(idCounter)
                /\ recId' = [recId EXCEPT ![r] = Uint32(idCounter)]
                /\ recValid' = [recValid EXCEPT ![r] = TRUE]
                /\ recSignal' = [recSignal EXCEPT ![r] = s]
                /\ recSlot' = [recSlot EXCEPT ![r] = [kind |-> cur[t].kind, obj |-> cur[t].obj]]
                /\ sigConns' = [sigConns EXCEPT ![s] = Append(@, r)]
                /\ ReturnFrame(t, "connection", [cur[t] EXCEPT !.rec = r])
                /\ UNCHANGED <<assertsOn, sigAlive, sigValid, sigLock, recLock,
                               halted, histVars>>

\* n times sig.connect(slot).disconnect() with nothing else in between: each
\* connect takes the next id, each record is invalidated, erased and, its handle
\* dropped, freed. All that is left of the n records is the advanced counter.
ConnectTemporaries(t, s, n) ==
    /\ Live(s)
    /\ sigValid[s]
    /\ Below32(idCounter)
    /\ Begin(t, [NoOp EXCEPT !.op = "connectTemporaries", !.sig = s], "idle")
    /\ idCounter' = Plus(idCounter, n)
    /\ UNCHANGED <<assertsOn, sigVars, nRecs, recValid, recSignal, recLock, recId,
                   recSlot, halted, histVars>>

\* Connection::operator==: id() == other.id()
Equal(r1, r2) == recId[r1] = recId[r2]

----------------------------------------------------------------------------
\* Signal::disconnect(Connection&), Connection::disconnect and disconnectLocked.
StartSignalDisconnect(t, s, r) ==
    /\ Live(s)
    /\ r \in Created
    /\ Begin(t, [NoOp EXCEPT !.op = "signalDisconnect", !.sig = s, !.rec = r,
                             !.pre = recValid[r]], "disconnect")
    /\ UNCHANGED <<assertsOn, sigVars, recVars, halted, histVars>>

\* ConnectionData::disconnect reads _signal and calls _signal->disconnect(connection).
StartConnectionDisconnect(t, r) ==
    /\ r \in Created
    /\ Begin(t, [NoOp EXCEPT !.op = "connectionDisconnect", !.sig = recSignal[r],
                             !.rec = r, !.pre = recValid[r]], "disconnect")
    /\ UNCHANGED <<assertsOn, sigVars, recVars, halted, histVars>>

\* The owner the record points at has been destroyed: the call runs on a dead object.
DisconnectDangling(t) ==
    /\ Running
    /\ pc[t] = "disconnect"
    /\ ~sigAlive[cur[t].sig]
    /\ pc' = [pc EXCEPT ![t] = "dangling"]
    /\ UNCHANGED <<assertsOn, sigVars, recVars, cur, res, snap, log, halted, histVars>>

\* What a build does with the dead object: the freed vector looks empty, or it crashes.
DanglingReturns(t) ==
    /\ Running
    /\ pc[t] = "dangling"
    /\ Return(t, "false")
    /\ UNCHANGED <<assertsOn, sigVars, recVars, halted, histVars>>

DanglingCrashes(t) ==
    /\ Running
    /\ pc[t] = "dangling"
    /\ Halt("crash")

DisconnectLocked(t) ==
    LET s == cur[t].sig
        r == cur[t].rec
    IN  /\ Running
        /\ pc[t] = "disconnect"
        /\ sigAlive[s]
        /\ Free(sigLock, s)
        /\ IF AssertFails(sigValid[s])
           THEN Halt("assert")
           ELSE IF Find(sigConns[s], r) # 0
           THEN /\ sigLock' = [sigLock EXCEPT ![s] = t]
                /\ snap' = [snap EXCEPT ![t] = sigConns[s]]
                /\ pc' = [pc EXCEPT ![t] = "found"]
                /\ UNCHANGED <<assertsOn, sigAlive, sigValid, sigConns, recVars,
                               cur, res, log, halted, histVars>>
           ELSE /\ Return(t, "false")
                /\ UNCHANGED <<assertsOn, sigVars, recVars, halted, histVars>>

\* (*I)->invalidate(); _connections.erase(I); return true;
DisconnectFound(t) ==
    LET s == cur[t].sig
        I == Find(sigConns[s], cur[t].rec)
        r == sigConns[s][I]
    IN  /\ Running
        /\ pc[t] = "found"
        /\ I # 0
        /\ Free(recLock, r)
        /\ recValid' = invalidate(recValid, r)
        /\ sigConns' = [sigConns EXCEPT ![s] = Erase(@, I)]
        /\ sigLock' = [sigLock EXCEPT ![s] = 0]
        /\ disconnected' = disconnected \cup {r}
        /\ Return(t, "true")
        /\ UNCHANGED <<assertsOn, sigAlive, sigValid, nRecs, recSignal, recLock,
                       recId, recSlot, idCounter, halted, cleared>>

----------------------------------------------------------------------------
\* Signal::disconnect(), ~Signal and the moves all run disconnectAllLocked on *this.
StartDisconnectAll(t, s) ==
    /\ Live(s)
    /\ Begin(t, [NoOp EXCEPT !.op = "disconnectAll", !.sig = s], "lockAll")
    /\ UNCHANGED <<assertsOn, sigVars, recVars, halted, histVars>>

StartDestroy(t, s) ==
    /\ Live(s)
    /\ \A u \in Threads \ {t} : Uses(u, s) => sigLock[s] = u
    /\ Begin(t, [NoOp EXCEPT !.op = "destroy", !.sig = s], "lockAll")
    /\ UNCHANGED <<assertsOn, sigVars, recVars, halted, histVars>>

LockAll(t) ==
    LET s == cur[t].sig
    IN  /\ Running
        /\ pc[t] = "lockAll"
        /\ Free(sigLock, s)
        /\ sigLock' = [sigLock EXCEPT ![s] = t]
        /\ snap' = [snap EXCEPT ![t] = sigConns[s]]
        /\ cur' = [cur EXCEPT ![t].idx = 1]
        /\ pc' = [pc EXCEPT ![t] = "invalidateAll"]
        /\ UNCHANGED <<assertsOn, sigAlive, sigValid, sigConns, recVars, res,
                       log, halted, histVars>>

\* forEachConnection(lock, [](auto& connection) { connection.invalidate(); });
InvalidateNext(t) ==
    LET s == cur[t].sig
        k == cur[t].idx
        r == forEachOrder(sigConns[s])[k]
    IN  /\ Running
        /\ pc[t] = "invalidateAll"
        /\ k <= Visits(sigConns[s])
        /\ Free(recLock, r)
        /\ recValid' = invalidate(recValid, r)
        /\ cur' = [cur EXCEPT ![t].idx = k + 1]
        /\ UNCHANGED <<assertsOn, sigVars, nRecs, recSignal, recLock, recId,
                       recSlot, idCounter, pc, res, snap, log, halted, histVars>>

\* _connections.clear(), then the rest of the caller.
DisconnectAllDone(t) ==
    LET s == cur[t].sig
    IN  /\ Running
        /\ pc[t] = "invalidateAll"
        /\ cur[t].op = "disconnectAll"
        /\ cur[t].idx > Visits(sigConns[s])
        /\ sigConns' = [sigConns EXCEPT ![s] = Clear(@)]
        /\ sigLock' = [sigLock EXCEPT ![s] = 0]
        /\ cleared' = cleared \cup SeqToSet(sigConns[s])
        /\ Return(t, "void")
        /\ UNCHANGED <<assertsOn, sigAlive, sigValid, recVars, halted, disconnected>>

DestroyDone(t) ==
    LET s == cur[t].sig
    IN  /\ Running
        /\ pc[t] = "invalidateAll"
        /\ cur[t].op = "destroy"
        /\ cur[t].idx > Visits(sigConns[s])
        /\ sigConns' = [sigConns EXCEPT ![s] = Clear(@)]
        /\ sigLock' = [sigLock EXCEPT ![s] = 0]
        /\ sigAlive' = [sigAlive EXCEPT ![s] = FALSE]
        \* no object is left at the location: its former members get one fixed value
        /\ sigValid' = [sigValid EXCEPT ![s] = FALSE]
        /\ cleared' = cleared \cup SeqToSet(sigConns[s])
        /\ Return(t, "void")
        /\ UNCHANGED <<assertsOn, recVars, halted, disconnected>>

----------------------------------------------------------------------------
\* Signal(Signal&& other) into a free location, operator=(Signal&& other) onto a Signal.
StartMoveConstruct(t, dst, src) ==
    /\ ~sigAlive[dst]
    /\ Live(src)
    /\ \A u \in Threads \ {t} : pc[u] = "idle"
    /\ Begin(t, [NoOp EXCEPT !.op = "moveConstruct", !.sig = dst, !.src = src], "moveThis")
    /\ sigAlive' = [sigAlive EXCEPT ![dst] = TRUE]
    /\ sigValid' = [sigValid EXCEPT ![dst] = TRUE]
    /\ sigConns' = [sigConns EXCEPT ![dst] = <<>>]
    /\ sigLock' = [sigLock EXCEPT ![dst] = 0]
    /\ UNCHANGED <<assertsOn, recVars, halted, histVars>>

StartMoveAssign(t, dst, src) ==
    /\ Live(dst)
    /\ Live(src)
    /\ Begin(t, [NoOp EXCEPT !.op = "moveAssign", !.sig = dst, !.src = src], "moveThis")
    /\ UNCHANGED <<assertsOn, sigVars, recVars, halted, histVars>>

\* StateLock thisLock{_stateMutex};
MoveLockThis(t) ==
    LET dst == cur[t].sig
    IN  /\ Running
        /\ pc[t] = "moveThis"
        /\ Free(sigLock, dst)
        /\ sigLock' = [sigLock EXCEPT ![dst] = t]
        /\ pc' = [pc EXCEPT ![t] = "moveOther"]
        /\ UNCHANGED <<assertsOn, sigAlive, sigValid, sigConns, recVars, cur,
                       res, snap, log, halted, histVars>>

\* StateLock otherLock{other._stateMutex};
MoveLockOther(t) ==
    LET src == cur[t].src
    IN  /\ Running
        /\ pc[t] = "moveOther"
        /\ Free(sigLock, src)
        /\ sigLock' = [sigLock EXCEPT ![src] = t]
        /\ snap' = [snap EXCEPT ![t] = sigConns[src]]
        /\ cur' = [cur EXCEPT ![t].idx = 1]
        /\ pc' = [pc EXCEPT ![t] = "invalidateAll"]
        /\ UNCHANGED <<assertsOn, sigAlive, sigValid, sigConns, recVars, res,
                       log, halted, histVars>>

\* other is *this: the thread locks a std::mutex it owns (undefined): it blocks for
\* good, or lock() reports resource_deadlock_would_occur and thisLock is released.
MoveSelfBlocks(t) ==
    /\ Running
    /\ pc[t] = "moveOther"
    /\ sigLock[cur[t].src] = t
    /\ pc' = [pc EXCEPT ![t] = "stuck"]
    /\ UNCHANGED <<assertsOn, sigVars, recVars, cur, res, snap, log, halted, histVars>>

MoveSelfThrows(t) ==
    /\ Running
    /\ pc[t] = "moveOther"
    /\ sigLock[cur[t].src] = t
    /\ sigLock' = [sigLock EXCEPT ![cur[t].sig] = 0]
    /\ Return(t, "system_error")
    /\ UNCHANGED <<assertsOn, sigAlive, sigValid, sigConns, recVars, halted, histVars>>

\* _connections = std::move(other._connections); other._connections.clear();
MovedConnsCopied(conns, dst, src) == [conns EXCEPT ![dst] = conns[src]]
MovedConns(conns, dst, src) == [conns EXCEPT ![dst] = conns[src], ![src] = <<>>]

MoveTransfer(t) ==
    LET dst == cur[t].sig
        src == cur[t].src
    IN  /\ Running
        /\ pc[t] = "invalidateAll"
        /\ cur[t].op \in {"moveConstruct", "moveAssign"}
        /\ cur[t].idx > Visits(sigConns[dst])
        /\ cleared' = cleared \cup SeqToSet(sigConns[dst])
        /\ sigConns' = MovedConns(sigConns, dst, src)
        \* other._valid = false; _valid = true;
        /\ sigValid' = [[sigValid EXCEPT ![src] = FALSE] EXCEPT ![dst] = TRUE]
        /\ cur' = [cur EXCEPT ![t].idx = 1]
        /\ pc' = [pc EXCEPT ![t] = "updateAll"]
        /\ UNCHANGED <<assertsOn, sigAlive, sigLock, recVars, res, snap, log,
                       halted, disconnected>>

\* forEachConnection(thisLock, [this](auto& connection) { connection.updateSignal(this); });
MoveUpdateNext(t) ==
    LET dst == cur[t].sig
        k == cur[t].idx
        r == forEachOrder(sigConns[dst])[k]
    IN  /\ Running
        /\ pc[t] = "updateAll"
        /\ k <= Visits(sigConns[dst])
        /\ Free(recLock, r)
        /\ recSignal' = updateSignal(recSignal, r, dst)
        /\ cur' = [cur EXCEPT ![t].idx = k + 1]
        /\ UNCHANGED <<assertsOn, sigVars, nRecs, recValid, recLock, recId,
                       recSlot, idCounter, pc, res, snap, log, halted, histVars>>

MoveDone(t) ==
    LET dst == cur[t].sig
        src == cur[t].src
    IN  /\ Running
        /\ pc[t] = "updateAll"
        /\ cur[t].idx > Visits(sigConns[dst])
        /\ sigLock' = [[sigLock EXCEPT ![src] = 0] EXCEPT ![dst] = 0]
        /\ Return(t, "void")
        /\ UNCHANGED <<assertsOn, sigAlive, sigValid, sigConns, recVars, halted, histVars>>

----------------------------------------------------------------------------
\* Signal::operator()(Args...) and ConnectionData::call.
StartEmit(t, s, a) ==
    /\ Live(s)
    /\ Begin(t, [NoOp EXCEPT !.op = "emit", !.sig = s, !.arg = a], "emit")
    /\ UNCHANGED <<assertsOn, sigVars, recVars, halted, histVars>>

\* StateLock lock{_stateMutex}; assert(_valid);
EmitLocked(t) ==
    LET s == cur[t].sig
    IN  /\ Running
        /\ pc[t] = "emit"
        /\ Free(sigLock, s)
        /\ IF AssertFails(sigValid[s])
           THEN Halt("assert")
           ELSE /\ sigLock' = [sigLock EXCEPT ![s] = t]
                /\ snap' = [snap EXCEPT ![t] = sigConns[s]]
                /\ cur' = [cur EXCEPT ![t].idx = 1]
                /\ pc' = [pc EXCEPT ![t] = "forEach"]
                /\ UNCHANGED <<assertsOn, sigAlive, sigValid, sigConns, recVars,
                               res, log, halted, histVars>>

\* connection.call(args...): StateLock lock{_stateMutex}; assert(_valid); _slot(args...);
EmitCall(t) ==
    LET s == cur[t].sig
        k == cur[t].idx
        r == forEachOrder(sigConns[s])[k]
    IN  /\ Running
        /\ pc[t] = "forEach"
        /\ k <= Visits(sigConns[s])
        /\ Free(recLock, r)
        /\ IF AssertFails(recValid[r])
           THEN Halt("assert")
           ELSE /\ recLock' = [recLock EXCEPT ![r] = t]
                /\ log' = [log EXCEPT ![t] = Append(@, <<r, Invoke(recSlot[r], cur[t].arg)>>)]
                /\ cur' = [cur EXCEPT ![t].rec = r]
                /\ pc' = [pc EXCEPT ![t] = "slot"]
                /\ UNCHANGED <<assertsOn, sigVars, nRecs, recValid, recSignal,
                               recId, recSlot, idCounter, res, snap, halted, histVars>>

\* The loop has reached rend(): the lock guard releases the mutex.
EmitDone(t) ==
    LET s == cur[t].sig
    IN  /\ Running
        /\ pc[t] = "forEach"
        /\ cur[t].idx > Visits(sigConns[s])
        /\ sigLock' = [sigLock EXCEPT ![s] = 0]
        /\ Return(t, "void")
        /\ UNCHANGED <<assertsOn, sigAlive, sigValid, sigConns, recVars, halted, histVars>>

\* The slot returns: call's lock guard releases the record, the loop advances.
SlotReturnsKeepsRecordLock(t) ==
    LET r == cur[t].rec
    IN  /\ Running
        /\ pc[t] = "slot"
        /\ recSlot[r].kind \in ReturningKinds
        /\ cur' = [cur EXCEPT ![t].idx = @ + 1]
        /\ pc' = [pc EXCEPT ![t] = "forEach"]
        /\ UNCHANGED <<assertsOn, sigVars, recVars, res, snap, log, halted, histVars>>

SlotReturns(t) ==
    LET r == cur[t].rec
    IN  /\ Running
        /\ pc[t] = "slot"
        /\ recSlot[r].kind \in ReturningKinds
        /\ recLock' = [recLock EXCEPT ![r] = 0]
        /\ cur' = [cur EXCEPT ![t].idx = @ + 1]
        /\ pc' = [pc EXCEPT ![t] = "forEach"]
        /\ UNCHANGED <<assertsOn, sigVars, nRecs, recValid, recSignal, recId,
                       recSlot, idCounter, res, snap, log, halted, histVars>>

\* An exception leaves the slot: both lock guards unwind, the emission ends with it.
UnwindKeepsSignalLock(t, what) ==
    /\ recLock' = [recLock EXCEPT ![cur[t].rec] = 0]
    /\ Return(t, what)
    /\ UNCHANGED <<assertsOn, sigVars, nRecs, recValid, recSignal, recId, recSlot,
                   idCounter, halted, histVars>>

Unwind(t, what) ==
    /\ recLock' = [recLock EXCEPT ![cur[t].rec] = 0]
    /\ sigLock' = [sigLock EXCEPT ![cur[t].sig] = 0]
    /\ Return(t, what)
    /\ UNCHANGED <<assertsOn, sigAlive, sigValid, sigConns, nRecs, recValid,
                   recSignal, recId, recSlot, idCounter, halted, histVars>>

\* The slot calls disconnect() on its own Connection.
SlotCallsBack(t) ==
    /\ Running
    /\ pc[t] = "slot"
    /\ recSlot[cur[t].rec].kind = "disconnectSelf"
    /\ pc' = [pc EXCEPT ![t] = "reenter"]
    /\ UNCHANGED <<assertsOn, sigVars, recVars, cur, res, snap, log, halted, histVars>>

\* The mutex the call back locks first: ConnectionData::disconnect reads _signal
\* and Signal::disconnect locks that Signal's mutex.
WantedOwner(t) == sigLock[recSignal[cur[t].rec]]

\* The emitting thread owns that mutex: locking it again is undefined. It blocks
\* for good, or lock() throws std::system_error(resource_deadlock_would_occur).
RelockBlocks(t) ==
    /\ Running
    /\ pc[t] = "reenter"
    /\ WantedOwner(t) = t
    /\ pc' = [pc EXCEPT ![t] = "stuck"]
    /\ UNCHANGED <<assertsOn, sigVars, recVars, cur, res, snap, log, halted, histVars>>

RelockThrows(t) ==
    /\ Running
    /\ pc[t] = "reenter"
    /\ WantedOwner(t) = t
    /\ Unwind(t, "system_error")

\* The slot throws: the exception leaves _slot, call and operator().
SlotThrows(t) ==
    /\ Running
    /\ pc[t] = "slot"
    /\ recSlot[cur[t].rec].kind = "throws"
    /\ Unwind(t, "slot_exception")

\* The slot calls valid() on its own Connection.
SlotAsksValid(t) ==
    /\ Running
    /\ pc[t] = "slot"
    /\ recSlot[cur[t].rec].kind = "validSelf"
    /\ pc' = [pc EXCEPT ![t] = "askValid"]
    /\ UNCHANGED <<assertsOn, sigVars, recVars, cur, res, snap, log, halted, histVars>>

\* ConnectionData::valid locks the record's mutex, which call has locked on this
\* thread (undefined): the thread blocks for good, or lock() throws.
ValidRelockBlocks(t) ==
    /\ Running
    /\ pc[t] = "askValid"
    /\ recLock[cur[t].rec] = t
    /\ pc' = [pc EXCEPT ![t] = "stuck"]
    /\ UNCHANGED <<assertsOn, sigVars, recVars, cur, res, snap, log, halted, histVars>>

ValidRelockThrows(t) ==
    /\ Running
    /\ pc[t] = "askValid"
    /\ recLock[cur[t].rec] = t
    /\ Unwind(t, "system_error")

\* Connection::valid() called by a thread of the program: ConnectionData::valid
\* locks the record's mutex and returns _valid.
StartValid(t, r) ==
    /\ r \in Created
    /\ Begin(t, [NoOp EXCEPT !.op = "valid", !.rec = r, !.pre = recValid[r]], "valid")
    /\ UNCHANGED <<assertsOn, sigVars, recVars, halted, histVars>>

ValidLocked(t) ==
    /\ Running
    /\ pc[t] = "valid"
    /\ Free(recLock, cur[t].rec)
    /\ Return(t, IF recValid[cur[t].rec] THEN "true" ELSE "false")
    /\ UNCHANGED <<assertsOn, sigVars, recVars, halted, histVars>>

----------------------------------------------------------------------------
Step(t) ==
    \/ \E s \in Sigs : Construct(t, s)
    \/ \E s \in Sigs, k \in SlotKinds : StartConnect(t, s, k)
    \/ ConnectLocked(t)
    \/ \E s \in Sigs, r \in Recs : StartSignalDisconnect(t, s, r)
    \/ \E r \in Recs : StartConnectionDisconnect(t, r)
    \/ DisconnectDangling(t)
    \/ DanglingReturns(t)
    \/ DanglingCrashes(t)
    \/ DisconnectLocked(t)
    \/ DisconnectFound(t)
    \/ \E s \in Sigs : StartDisconnectAll(t, s)
    \/ \E s \in Sigs : StartDestroy(t, s)
    \/ LockAll(t)
    \/ InvalidateNext(t)
    \/ DisconnectAllDone(t)
    \/ DestroyDone(t)
    \/ \E dst \in Sigs, src \in Sigs : StartMoveConstruct(t, dst, src)
    \/ \E dst \in Sigs, src \in Sigs : StartMoveAssign(t, dst, src)
    \/ MoveLockThis(t)
    \/ MoveLockOther(t)
    \/ MoveSelfBlocks(t)
    \/ MoveSelfThrows(t)
    \/ MoveTransfer(t)
    \/ MoveUpdateNext(t)
    \/ MoveDone(t)
    \/ \E s \in Sigs, a \in Args : StartEmit(t, s, a)
    \/ EmitLocked(t)
    \/ EmitCall(t)
    \/ EmitDone(t)
    \/ SlotReturns(t)
    \/ SlotCallsBack(t)
    \/ RelockBlocks(t)
    \/ RelockThrows(t)

\* The sequential program: one thread issues the operations in any order.
Next == \E t \in SeqThreads : Step(t)

Spec == Init /\ [][Next]_vars

\* The sequential program with slots that fail and with bound member functions,
\* on a Signal<void(int, int)>.
StepSlot(t) ==
    \/ \E s \in Sigs, k \in FailingKinds : StartConnect(t, s, k)
    \/ \E s \in Sigs, o \in Objs, how \in BindKinds : StartConnectMember(t, s, o, how)
    \/ ConnectLocked(t)
    \/ \E s \in Sigs, r \in Recs : StartSignalDisconnect(t, s, r)
    \/ DisconnectLocked(t)
    \/ DisconnectFound(t)
    \/ \E s \in Sigs, a \in ArgLists : StartEmit(t, s, a)
    \/ EmitLocked(t)
    \/ EmitCall(t)
    \/ EmitDone(t)
    \/ SlotReturns(t)
    \/ SlotThrows(t)
    \/ SlotAsksValid(t)
    \/ ValidRelockBlocks(t)
    \/ ValidRelockThrows(t)

NextSlot == \E t \in SeqThreads : StepSlot(t)

SpecSlot == Init /\ [][NextSlot]_vars

\* The concurrent program: the workers connect, disconnect, disconnect all, emit,
\* move-assign and destroy in any interleaving, a step being the code from one
\* mutex acquisition to the next; the slots are callables that return.
StepMT(t) ==
    \/ \E s \in Sigs, k \in {"plain"} : nRecs + Pending < MaxRecsMT /\ StartConnect(t, s, k)
    \/ ConnectLocked(t)
    \/ \E s \in Sigs, r \in Recs : StartSignalDisconnect(t, s, r)
    \/ \E r \in Recs : StartConnectionDisconnect(t, r)
    \/ DisconnectLocked(t)
    \/ DisconnectFound(t)
    \/ \E s \in Sigs : StartDisconnectAll(t, s)
    \/ \E s \in Sigs : StartDestroy(t, s)
    \/ LockAll(t)
    \/ InvalidateNext(t)
    \/ DisconnectAllDone(t)
    \/ DestroyDone(t)
    \/ DisconnectDangling(t)
    \/ DanglingReturns(t)
    \/ DanglingCrashes(t)
    \/ \E dst \in Sigs, src \in Sigs : StartMoveAssign(t, dst, src)
    \/ MoveLockThis(t)
    \/ MoveLockOther(t)
    \/ MoveSelfBlocks(t)
    \/ MoveSelfThrows(t)
    \/ MoveTransfer(t)
    \/ MoveUpdateNext(t)
    \/ MoveDone(t)
    \/ \E s \in Sigs, a \in {1} : StartEmit(t, s, a)
    \/ EmitLocked(t)
    \/ EmitCall(t)
    \/ EmitDone(t)
    \/ SlotReturns(t)

NextMT == \E t \in Workers : StepMT(t)

SpecMT == Init /\ [][NextMT]_vars

\* The concurrent program of calls on one shared Signal: the threads connect,
\* disconnect through either path, disconnect all, ask valid() and emit; nothing
\* is moved or destroyed and the slots are callables that return.
SharedSigs == {1}

\* A thread begins a call.
Call(t) ==
    \/ \E s \in SharedSigs, k \in {"plain"} :
            nRecs + Pending < MaxRecsMT /\ StartConnect(t, s, k)
    \/ \E s \in SharedSigs, r \in Recs : StartSignalDisconnect(t, s, r)
    \/ \E r \in Recs : StartConnectionDisconnect(t, r)
    \/ \E s \in SharedSigs : StartDisconnectAll(t, s)
    \/ \E r \in Recs : StartValid(t, r)
    \/ \E s \in SharedSigs, a \in {1} : StartEmit(t, s, a)

\* A thread inside a call takes its next step: it acquires the mutex it waits
\* for, or runs on to the next acquisition or to the return.
Proceed(t) ==
    \/ ConnectLocked(t)
    \/ DisconnectLocked(t)
    \/ DisconnectFound(t)
    \/ LockAll(t)
    \/ InvalidateNext(t)
    \/ DisconnectAllDone(t)
    \/ ValidLocked(t)
    \/ EmitLocked(t)
    \/ EmitCall(t)
    \/ EmitDone(t)
    \/ SlotReturns(t)

NextShared == \E t \in Workers : Call(t) \/ Proceed(t)

\* Fair scheduling: a thread that can take its next step again and again takes
\* it. A std::mutex hands itself to any waiter, so a waiting thread is not
\* continuously able to proceed; the fairness is the strong one.
FairScheduling == \A t \in Workers : SF_vars(Proceed(t))

SpecFair == Init /\ [][NextShared]_vars /\ FairScheduling

\* The long-running sequential program: it connects and disconnects records it
\* keeps handles of and, in between, very many that it drops.
StepLong(t) ==
    \/ \E s \in Sigs, k \in {"plain"} : StartConnect(t, s, k)
    \/ ConnectLocked(t)
    \/ \E s \in Sigs, n \in Batches : ConnectTemporaries(t, s, n)
    \/ \E s \in Sigs, r \in Recs : StartSignalDisconnect(t, s, r)
    \/ DisconnectLocked(t)
    \/ DisconnectFound(t)

NextLong == \E t \in SeqThreads : StepLong(t)

SpecLong == Init /\ [][NextLong]_vars

----------------------------------------------------------------------------
(***************************************************************************)
(* The baseline variant (signals/include/signals/Signal.hpp).  A Signal    *)
(* owns a mutex and a vector of Connection objects; a Connection holds the *)
(* shared record (mutex, _valid, slot), its Signal and its id, and copies  *)
(* of a Connection share all three.  The variables are those above:        *)
(* sigConns holds the record of each Connection in the vector, recId and   *)
(* recSignal are Connection::_id and Connection::_signal, idCounter is the *)
(* static uint32_t id of connectLocked.  There is no move and no _valid    *)
(* flag of a Signal.                                                       *)
(***************************************************************************)
InitBaseline ==
    /\ assertsOn \in BOOLEAN
    /\ sigAlive = [s \in Sigs |-> TRUE]
    /\ sigValid = [s \in Sigs |-> TRUE]
    /\ sigConns = [s \in Sigs |-> <<>>]
    /\ sigLock = [s \in Sigs |-> 0]
    /\ nRecs = 0
    /\ recValid = [r \in Recs |-> FALSE]
    /\ recSignal = [r \in Recs |-> 0]
    /\ recLock = [r \in Recs |-> 0]
    /\ recId = [r \in Recs |-> Zero32]
    /\ recSlot = [r \in Recs |-> NoSlot]
    /\ idCounter = Zero32
    /\ pc = [t \in Threads |-> "idle"]
    /\ cur = [t \in Threads |-> NoOp]
    /\ res = [t \in Threads |-> "none"]
    /\ snap = [t \in Threads |-> <<>>]
    /\ log = [t \in Threads |-> <<>>]
    /\ halted = "no"
    /\ disconnected = {}
    /\ cleared = {}

\* Connects that have begun and not yet built their Connection.
BaselinePending == Cardinality({u \in Threads : pc[u] \in {"connect", "connectWrite"}})

\* for (auto& connection : _connections): the k-th Connection visited.
BaselineOrderReversed(conns) == [k \in 1..Len(conns) |-> conns[Len(conns) + 1 - k]]
BaselineOrder(conns) == conns

\* std::find(begin, end, connection) with Connection::operator== (_id == other._id):
\* the first index whose Connection has the id of r, 0 for end().
BaselineFind(conns, r) ==
    IF \E i \in 1..Len(conns) : recId[conns[i]] = recId[r]
    THEN CHOOSE i \in 1..Len(conns) :
            /\ recId[conns[i]] = recId[r]
            /\ \A j \in 1..(i - 1) : recId[conns[j]] # recId[r]
    ELSE 0

\* Signal::connect(Slot&&)
BaselineStartConnect(t, s, k) ==
    /\ sigAlive[s]
    /\ nRecs + BaselinePending < MaxRecs
    /\ Begin(t, [NoOp EXCEPT !.op = "connect", !.sig = s, !.kind = k], "connect")
    /\ UNCHANGED <<assertsOn, sigVars, recVars, halted, histVars>>

\* StateLock lock{_stateMutex}; connectLocked evaluates id++ on the plain static
\* uint32_t: the read of id. The Signal's mutex does not keep a thread that
\* connects on another Signal from reading or writing id in between (a data race).
BaselineConnectRead(t) ==
    LET s == cur[t].sig
    IN  /\ Running
        /\ pc[t] = "connect"
        /\ Free(sigLock, s)
        /\ sigLock' = [sigLock EXCEPT ![s] = t]
        /\ cur' = [cur EXCEPT ![t].arg = idCounter]
        /\ pc' = [pc EXCEPT ![t] = "connectWrite"]
        /\ UNCHANGED <<assertsOn, sigAlive, sigValid, sigConns, recVars, res, snap,
                       log, halted, histVars>>

\* The write of id++ (the value read, plus one), then
\* _connections.emplace_back(this, std::move(slot), <the value read>); return I;
BaselineConnectLocked(t) ==
    LET s == cur[t].sig
        r == nRecs + 1
    IN  /\ Running
        /\ pc[t] = "connectWrite"
        /\ nRecs' = r
        /\ idCounter' = Increment(cur[t].arg)
        /\ recId' = [recId EXCEPT ![r] = cur[t].arg]
        /\ recValid' = [recValid EXCEPT ![r] = TRUE]
        /\ recSignal' = [recSignal EXCEPT ![r] = s]
        /\ recSlot' = [recSlot EXCEPT ![r] = [kind |-> cur[t].kind, obj |-> cur[t].obj]]
        /\ sigConns' = [sigConns EXCEPT ![s] = Append(@, r)]
        /\ sigLock' = [sigLock EXCEPT ![s] = 0]
        /\ ReturnFrame(t, "connection", [cur[t] EXCEPT !.rec = r])
        /\ UNCHANGED <<assertsOn, sigAlive, sigValid, recLock, halted, histVars>>

\* Signal::disconnect(Connection&) and Connection::disconnect (_signal->disconnect(*this)).
BaselineStartSignalDisconnect(t, s, r) ==
    /\ sigAlive[s]
    /\ r \in Created
    /\ Begin(t, [NoOp EXCEPT !.op = "signalDisconnect", !.sig = s, !.rec = r,
                             !.pre = recValid[r]], "disconnect")
    /\ UNCHANGED <<assertsOn, sigVars, recVars, halted, histVars>>

BaselineStartConnectionDisconnect(t, r) ==
    /\ r \in Created
    /\ sigAlive[recSignal[r]]
    /\ Begin(t, [NoOp EXCEPT !.op = "connectionDisconnect", !.sig = recSignal[r],
                             !.rec = r, !.pre = recValid[r]], "disconnect")
    /\ UNCHANGED <<assertsOn, sigVars, recVars, halted, histVars>>

\* StateLock lock{_stateMutex}; auto I = std::find(...); if (I != end) ... return false;
BaselineDisconnectLocked(t) ==
    LET s == cur[t].sig
        r == cur[t].rec
    IN  /\ Running
        /\ pc[t] = "disconnect"
        /\ Free(sigLock, s)
        /\ IF BaselineFind(sigConns[s], r) # 0
           THEN /\ sigLock' = [sigLock EXCEPT ![s] = t]
                /\ snap' = [snap EXCEPT ![t] = sigConns[s]]
                /\ pc' = [pc EXCEPT ![t] = "found"]
                /\ UNCHANGED <<assertsOn, sigAlive, sigValid, sigConns, recVars,
                               cur, res, log, halted, histVars>>
           ELSE /\ Return(t, "false")
                /\ UNCHANGED <<assertsOn, sigVars, recVars, halted, histVars>>

\* connection.invalidate(); _connections.erase(I); return true;
\* The Connection invalidated is the one passed in, the one erased the one found.
BaselineDisconnectFound(t) ==
    LET s == cur[t].sig
        r == cur[t].rec
        I == BaselineFind(sigConns[s], r)
    IN  /\ Running
        /\ pc[t] = "found"
        /\ I # 0
        /\ Free(recLock, r)
        /\ recValid' = invalidate(recValid, r)
        /\ sigConns' = [sigConns EXCEPT ![s] = Erase(@, I)]
        /\ sigLock' = [sigLock EXCEPT ![s] = 0]
        /\ disconnected' = disconnected \cup {r}
        /\ Return(t, "true")
        /\ UNCHANGED <<assertsOn, sigAlive, sigValid, nRecs, recSignal, recLock,
                       recId, recSlot, idCounter, halted, cleared>>

\* Signal::operator()(Args...)
BaselineStartEmit(t, s, a) ==
    /\ sigAlive[s]
    /\ Begin(t, [NoOp EXCEPT !.op = "emit", !.sig = s, !.arg = a], "emit")
    /\ UNCHANGED <<assertsOn, sigVars, recVars, halted, histVars>>

\* StateLock lock{_stateMutex};
BaselineEmitLocked(t) ==
    LET s == cur[t].sig
    IN  /\ Running
        /\ pc[t] = "emit"
        /\ Free(sigLock, s)
        /\ sigLock' = [sigLock EXCEPT ![s] = t]
        /\ snap' = [snap EXCEPT ![t] = sigConns[s]]
        /\ cur' = [cur EXCEPT ![t].idx = 1]
        /\ pc' = [pc EXCEPT ![t] = "forEach"]
        /\ UNCHANGED <<assertsOn, sigAlive, sigValid, sigConns, recVars, res, log,
                       halted, histVars>>

\* connection.call(args...): SharedConnectionData::call locks the record's mutex
\* and calls _slot; _valid is not looked at.
BaselineEmitCall(t) ==
    LET s == cur[t].sig
        k == cur[t].idx
        r == BaselineOrder(sigConns[s])[k]
    IN  /\ Running
        /\ pc[t] = "forEach"
        /\ k <= Len(sigConns[s])
        /\ Free(recLock, r)
        /\ recLock' = [recLock EXCEPT ![r] = t]
        /\ log' = [log EXCEPT ![t] = Append(@, <<r, Invoke(recSlot[r], cur[t].arg)>>)]
        /\ cur' = [cur EXCEPT ![t].rec = r]
        /\ pc' = [pc EXCEPT ![t] = "slot"]
        /\ UNCHANGED <<assertsOn, sigVars, nRecs, recValid, recSignal, recId,
                       recSlot, idCounter, res, snap, halted, histVars>>

\* The slot returns: call's lock guard releases the record, the loop advances.
BaselineSlotReturns(t) ==
    LET r == cur[t].rec
    IN  /\ Running
        /\ pc[t] = "slot"
        /\ recLock' = [recLock EXCEPT ![r] = 0]
        /\ cur' = [cur EXCEPT ![t].idx = @ + 1]
        /\ pc' = [pc EXCEPT ![t] = "forEach"]
        /\ UNCHANGED <<assertsOn, sigVars, nRecs, recValid, recSignal, recId,
                       recSlot, idCounter, res, snap, log, halted, histVars>>

\* The loop has reached end(): the lock guard releases the mutex.
BaselineEmitDone(t) ==
    LET s == cur[t].sig
    IN  /\ Running
        /\ pc[t] = "forEach"
        /\ cur[t].idx > Len(sigConns[s])
        /\ sigLock' = [sigLock EXCEPT ![s] = 0]
        /\ Return(t, "void")
        /\ UNCHANGED <<assertsOn, sigAlive, sigValid, sigConns, recVars, halted, histVars>>

\* The operations of one thread of a program that creates at most n records.
BaselineStep(t, n) ==
    \/ \E s \in Sigs, k \in {"plain"} :
            nRecs + BaselinePending < n /\ BaselineStartConnect(t, s, k)
    \/ BaselineConnectRead(t)
    \/ BaselineConnectLocked(t)
    \/ \E s \in Sigs, r \in Recs : BaselineStartSignalDisconnect(t, s, r)
    \/ \E r \in Recs : BaselineStartConnectionDisconnect(t, r)
    \/ BaselineDisconnectLocked(t)
    \/ BaselineDisconnectFound(t)
    \/ \E s \in Sigs, a \in Args : BaselineStartEmit(t, s, a)
    \/ BaselineEmitLocked(t)
    \/ BaselineEmitCall(t)
    \/ BaselineSlotReturns(t)
    \/ BaselineEmitDone(t)

\* The baseline used by one thread, and by several threads at once.
NextBaseline == \E t \in SeqThreads : BaselineStep(t, MaxRecs)

SpecBaseline == InitBaseline /\ [][NextBaseline]_vars

NextBaselineMT == \E t \in Workers : BaselineStep(t, MaxRecsMT)

SpecBaselineMT == InitBaseline /\ [][NextBaselineMT]_vars

----------------------------------------------------------------------------
\* Sanity of the model: a slot that calls back is always run by the thread that
\* holds the mutex of the Signal its record points at.
ReentryOwnsWantedMutex == \A t \in Threads : pc[t] = "reenter" => WantedOwner(t) = t

Idle == \A t \in Threads : pc[t] = "idle"
Returned(t, op) == pc[t] = "idle" /\ cur[t].op = op /\ res[t] # "none"
LogRecs(t) == {log[t][k][1] : k \in 1..Len(log[t])}
DisconnectOps == {"signalDisconnect", "connectionDisconnect"}

----------------------------------------------------------------------------
\* C1: a slot that calls disconnect() on its own Connection during an emission
\* gets its disconnect back and the emission returns normally: no emitting thread
\* ever blocks for good inside its slot, and no emission ends with the
\* std::system_error of a mutex locked twice.
C1_SelfDisconnectCompletes ==
    \A t \in Threads :
        cur[t].op = "emit" =>
            /\ pc[t] # "stuck"
            /\ ~(pc[t] = "idle" /\ res[t] = "system_error")

\* C2: between operations, valid() on a Connection is true exactly when no
\* disconnect (Connection::disconnect or Signal::disconnect(connection)) has
\* returned true for its record and the record was in no collection that
\* disconnectAllLocked ran on (Signal::disconnect(), ~Signal, the target of a move).
C2_ValidIffNeverDisconnected ==
    Idle => \A r \in Created : valid(r) <=> (r \notin disconnected /\ r \notin cleared)

C2_Witness ==
    /\ Idle
    /\ \E r \in Created : r \in disconnected
    /\ \E r \in Created : r \in cleared /\ ~sigAlive[recSignal[r]]
    /\ \E r \in Created : valid(r)

\* C3: an emission that returns has invoked exactly the N records that were
\* connected when it started, one call each, every call with the emitted
\* argument, the most recently connected record first.
C3_EmitCallsEachOnceReversed ==
    \A t \in Threads :
        (Returned(t, "emit") /\ res[t] = "void") =>
            LET n == Len(snap[t])
            IN  /\ Len(log[t]) = n
                /\ \A k \in 1..n : log[t][k] = <<snap[t][n + 1 - k], cur[t].arg>>
                /\ \A i, j \in 1..n : i < j => log[t][i][1] > log[t][j][1]
                /\ \A k \in 1..n : valid(snap[t][k])

C3_Witness ==
    \E t \in Threads :
        /\ Returned(t, "emit")
        /\ res[t] = "void"
        /\ Len(log[t]) >= 2
        /\ cur[t].arg = 1

\* C4: no emission invokes the slot of a connection that a disconnect (through
\* the Connection or through the Signal) has returned true for.
C4_DisconnectedNeverInvoked ==
    \A t \in Threads : LogRecs(t) \cap disconnected = {}

C4_Witness ==
    \E t \in Threads :
        /\ Returned(t, "emit")
        /\ log[t] # <<>>
        /\ \E r \in disconnected : recSignal[r] = cur[t].sig

\* C5: after its Signal was destroyed, Connection::disconnect() never runs
\* Signal::disconnect on the destroyed object and does not bring the process down.
C5_DisconnectNeverUsesDeadSignal ==
    /\ \A t \in Threads : pc[t] # "dangling"
    /\ halted # "crash"

\* C6: when ~Signal returns, every record that was in the collection is invalid,
\* and so is, between operations, every record whose owner has been destroyed.
C6_DestroyInvalidatesAll ==
    /\ \A t \in Threads :
          Returned(t, "destroy") => \A k \in 1..Len(snap[t]) : ~valid(snap[t][k])
    /\ Idle => \A r \in Created : ~sigAlive[recSignal[r]] => ~valid(r)

C6_Witness ==
    \E t \in Threads :
        /\ Returned(t, "destroy")
        /\ Len(snap[t]) >= 2
        /\ ~sigAlive[cur[t].sig]

\* C7: while the Signal a connection points at is alive, the first disconnect of
\* the live connection (through the Connection or through its Signal) returns true
\* and invalidates the record, and every later disconnect of it returns false: a
\* disconnect of a connection that was already disconnected runs to its return.
C7_DisconnectTwice ==
    \A t \in Threads :
        LET r == cur[t].rec
            s == cur[t].sig
        IN  (cur[t].op \in DisconnectOps /\ sigAlive[s]) =>
              /\ (pc[t] = "idle" /\ res[t] = "true") =>
                    cur[t].pre /\ ~valid(r) /\ r \in disconnected
              /\ (pc[t] = "idle" /\ cur[t].pre /\ res[t] = "false") =>
                    cur[t].op = "signalDisconnect" /\ recSignal[r] # s /\ valid(r)
              /\ (pc[t] = "idle" /\ ~cur[t].pre) => res[t] = "false"
              /\ (pc[t] = "disconnect" /\ r \in disconnected
                    /\ (cur[t].op = "connectionDisconnect" \/ recSignal[r] = s)) =>
                    halted = "no"

\* C8: when a move returns, the destination's collection is the source's former
\* collection in the same order, every record of it is valid and points at the
\* destination; between operations every record of a collection points at the
\* Signal that holds it, an emission that returns has invoked every live record
\* of its Signal, and Connection::disconnect() on a live record returns true and
\* leaves the record in no collection.
C8_MovePreservesConnections ==
    /\ \A t \in Threads :
          (Returned(t, "moveConstruct") \/ Returned(t, "moveAssign")) /\ res[t] = "void" =>
              /\ sigConns[cur[t].sig] = snap[t]
              /\ \A k \in 1..Len(snap[t]) :
                    valid(snap[t][k]) /\ recSignal[snap[t][k]] = cur[t].sig
    /\ Idle => \A s \in Sigs : \A k \in 1..Len(sigConns[s]) :
                    sigAlive[s] /\ valid(sigConns[s][k]) /\ recSignal[sigConns[s][k]] = s
    /\ \A t \in Threads :
          (Returned(t, "emit") /\ res[t] = "void") =>
              LogRecs(t) = {r \in Created : valid(r) /\ recSignal[r] = cur[t].sig}
    /\ \A t \in Threads :
          (Returned(t, "connectionDisconnect") /\ cur[t].pre) =>
              /\ res[t] = "true"
              /\ \A s \in Sigs : cur[t].rec \notin SeqToSet(sigConns[s])

C8_Witness ==
    \E t \in Threads :
        /\ Returned(t, "moveAssign")
        /\ res[t] = "void"
        /\ Len(snap[t]) >= 2
        /\ \E r \in Created : r \in cleared /\ recSignal[r] = cur[t].sig

\* C9: an emission on a moved-from Signal invokes no slot and returns normally:
\* it is never stopped by an assertion.
C9_EmitOnMovedFromReturns ==
    \A t \in Threads :
        (cur[t].op = "emit" /\ sigAlive[cur[t].sig] /\ ~sigValid[cur[t].sig]) =>
            /\ log[t] = <<>>
            /\ ~(pc[t] = "emit" /\ halted = "assert")

\* C9 as amended: an emission on a moved-from Signal invokes none of the records
\* that were moved out of it (a record it invokes points at this Signal, so it was
\* connected after the move); with assertions in the build the emission stops at
\* assert(_valid) before any slot; without them, and with nothing connected since
\* the move, it invokes nothing and returns.
C9_EmitOnMovedFromCallsNoMovedSlot ==
    \A t \in Threads :
        (cur[t].op = "emit" /\ sigAlive[cur[t].sig] /\ ~sigValid[cur[t].sig]) =>
            /\ \A k \in 1..Len(log[t]) : recSignal[log[t][k][1]] = cur[t].sig
            /\ assertsOn => (pc[t] = "emit" /\ log[t] = <<>>)
            /\ (~assertsOn /\ pc[t] # "emit" /\ snap[t] = <<>>) =>
                    /\ log[t] = <<>>
                    /\ pc[t] \in {"forEach", "idle"}
                    /\ pc[t] = "idle" => res[t] = "void"

C9_Witness ==
    \E t \in Threads :
        /\ Returned(t, "emit")
        /\ sigAlive[cur[t].sig]
        /\ ~sigValid[cur[t].sig]
        /\ res[t] = "void"
        /\ log[t] = <<>>
        /\ \E r \in Created : valid(r) /\ recSignal[r] # cur[t].sig

UnknownToSignal(t) ==
    /\ pc[t] = "disconnect"
    /\ cur[t].op = "signalDisconnect"
    /\ sigAlive[cur[t].sig]
    /\ cur[t].rec \notin SeqToSet(sigConns[cur[t].sig])

----------------------------------------------------------------------------
AllLocksFree == (\A s \in Sigs : sigLock[s] = 0) /\ (\A r \in Recs : recLock[r] = 0)
Throwing(r) == recSlot[r].kind = "throws"

\* C11: when a slot throws during an emission, the emission ends with that
\* exception at its caller; the slots invoked are those before the throwing one in
\* emission order and the throwing one, none after it; the collection is what it
\* was and all its records, the throwing one included, are still valid; the
\* Signal's mutex and every record's mutex are free again, as they are whenever no
\* operation is running, so a later connect, disconnect or emit gets them.
C11_ThrowPropagates ==
    /\ \A t \in Threads :
          (Returned(t, "emit") /\ \E k \in 1..Len(log[t]) : Throwing(log[t][k][1])) =>
              LET n == Len(log[t])
                  m == Len(snap[t])
              IN  /\ res[t] = "slot_exception"
                  /\ n <= m
                  /\ \A k \in 1..n : log[t][k][1] = snap[t][m + 1 - k]
                  /\ \A k \in 1..n : Throwing(log[t][k][1]) <=> k = n
                  /\ sigConns[cur[t].sig] = snap[t]
                  /\ \A k \in 1..m : valid(snap[t][k])
                  /\ AllLocksFree
    /\ \A t \in Threads : (Returned(t, "emit") /\ res[t] = "slot_exception") =>
          log[t] # <<>> /\ Throwing(log[t][Len(log[t])][1])
    /\ Idle => AllLocksFree

C11_Witness ==
    \E t \in Threads :
        /\ Returned(t, "emit")
        /\ res[t] = "slot_exception"
        /\ Len(log[t]) >= 2
        /\ Len(snap[t]) > Len(log[t])

\* C12: when Signal::disconnect() returns, every record that was in the collection
\* is invalid and the collection is empty, with the Signal alive and its mutex
\* free; a connect that returns afterwards has put a new valid record at the end
\* of the collection, and no emission invokes a record that a disconnect-all has
\* removed.
C12_DisconnectAllClears ==
    /\ \A t \in Threads :
          Returned(t, "disconnectAll") =>
              /\ \A k \in 1..Len(snap[t]) : ~valid(snap[t][k])
              /\ sigConns[cur[t].sig] = <<>>
              /\ sigAlive[cur[t].sig]
              /\ sigLock[cur[t].sig] = 0
    /\ \A t \in Threads :
          (Returned(t, "connect") /\ res[t] = "connection") =>
              LET c == sigConns[cur[t].sig]
              IN  /\ c # <<>>
                  /\ c[Len(c)] = cur[t].rec
                  /\ valid(cur[t].rec)
                  /\ cur[t].rec \notin cleared
    /\ \A t \in Threads : LogRecs(t) \cap cleared = {}

C12_Witness ==
    \E t \in Threads :
        /\ Returned(t, "disconnectAll")
        /\ Len(snap[t]) >= 2
        /\ \E r \in Created : valid(r)

\* C13: a member function connected with a target object, through the
\* pointer-to-member overload or the std::mem_fn overload, is the slot of the
\* record the connect returns; every call of that slot runs the member function
\* on that object with the emitted arguments, each in its position and unchanged;
\* an emission that returns has called it exactly once.
Bound(r) == recSlot[r].kind \in BindKinds

C13_MemberSlotGetsArguments ==
    /\ \A t \in Threads :
          (Returned(t, "connect") /\ res[t] = "connection") =>
              recSlot[cur[t].rec] = [kind |-> cur[t].kind, obj |-> cur[t].obj]
    /\ \A t \in Threads : \A j \in 1..Len(log[t]) :
          Bound(log[t][j][1]) =>
              log[t][j][2] = <<recSlot[log[t][j][1]].obj, cur[t].arg>>
    /\ \A t \in Threads :
          (Returned(t, "emit") /\ res[t] = "void") =>
              \A k \in 1..Len(snap[t]) :
                  Bound(snap[t][k]) =>
                      Cardinality({j \in 1..Len(log[t]) : log[t][j][1] = snap[t][k]}) = 1

C13_Witness ==
    \E t \in Threads :
        /\ Returned(t, "emit")
        /\ res[t] = "void"
        /\ cur[t].arg = <<0, 1>>
        /\ \E j, k \in 1..Len(log[t]) :
              /\ recSlot[log[t][j][1]] = [kind |-> "memberPtr", obj |-> 1]
              /\ recSlot[log[t][k][1]] = [kind |-> "memFn", obj |-> 2]

\* C14: while a slot is executing, the thread that emits does not own the mutex
\* of the Signal it emits on (the emission has released it before calling).
InSlot(t) == pc[t] \in {"slot", "reenter", "askValid"}

C14_SignalLockFreeInSlot ==
    \A t \in Threads : InSlot(t) => sigLock[cur[t].sig] # t

\* C15: a valid record is in the collection of exactly one Signal, a live one,
\* exactly once, and an invalid record is in no collection whose Signal's mutex is
\* free: whenever no thread is inside a critical section of a Signal's mutex, a
\* record is valid exactly when exactly one collection holds it, once.
Holders(r) == {p \in Sigs \X (1..MaxRecs) : p[2] <= Len(sigConns[p[1]]) /\ sigConns[p[1]][p[2]] = r}

C15_ValidIffInOneCollection ==
    /\ \A r \in Created :
          valid(r) => /\ Cardinality(Holders(r)) = 1
                      /\ \A p \in Holders(r) : sigAlive[p[1]]
    /\ \A r \in Created :
          ~valid(r) => \A p \in Holders(r) : sigLock[p[1]] # 0
    /\ (\A s \in Sigs : sigLock[s] = 0) =>
          \A r \in Created : valid(r) <=> Cardinality(Holders(r)) = 1

C15_Witness ==
    /\ \A s \in Sigs : sigLock[s] = 0
    /\ \E r \in Created : valid(r) /\ Holders(r) = {<<2, 1>>}
    /\ \E r \in Created : ~valid(r) /\ r \in disconnected
    /\ \A t \in Workers : pc[t] # "idle"

\* C16: under every interleaving of connect, both disconnects, disconnect-all,
\* emit and move by several threads, the record an emission is about to call is
\* valid, so assert(_valid) in ConnectionData::call never fails, and the record
\* whose slot a thread is running is valid.
NextCalled(t) ==
    LET c == sigConns[cur[t].sig]
    IN  IF pc[t] = "forEach" /\ cur[t].idx <= Len(c) THEN c[Len(c) + 1 - cur[t].idx] ELSE 0

C16_CallNeverOnInvalid ==
    \A t \in Threads :
        /\ NextCalled(t) # 0 => valid(NextCalled(t))
        /\ InSlot(t) => valid(cur[t].rec)
        /\ \A k \in 1..Len(log[t]) : pc[t] # "idle" => valid(log[t][k][1])

C16_Witness ==
    \E t \in Workers, u \in Workers :
        /\ t # u
        /\ NextCalled(t) # 0
        /\ log[t] # <<>>
        /\ pc[u] = "disconnect"
        /\ cur[u].rec = NextCalled(t)
        /\ cur[u].sig = cur[t].sig

\* C17: for the whole time a thread executes a record's slot, the record is valid
\* and its mutex is owned by that thread: a disconnect, a disconnect-all or a
\* destruction begun by another thread meanwhile invalidates the record only
\* after the call has returned.
C17_ValidThroughoutSlot ==
    /\ \A t \in Threads : InSlot(t) => valid(cur[t].rec) /\ recLock[cur[t].rec] = t
    /\ \A r \in Recs : Cardinality({t \in Threads : InSlot(t) /\ cur[t].rec = r}) <= 1

C17_Witness ==
    \E t \in Workers, u \in Workers :
        /\ pc[t] = "slot"
        /\ pc[u] = "lockAll"
        /\ cur[u].op = "destroy"
        /\ cur[u].sig = cur[t].sig
        /\ recSignal[cur[t].rec] = cur[t].sig

\* C18: once a disconnect of a connection, through either path and from any
\* thread, has returned true, no emission begins a call of its slot: neither the
\* record whose slot a thread is running, nor the record an emission in progress
\* is about to call, nor any record that emission has called is one a disconnect
\* has returned true for.
C18_NoCallAfterDisconnect ==
    \A t \in Threads :
        /\ InSlot(t) => cur[t].rec \notin disconnected
        /\ NextCalled(t) \notin disconnected
        /\ pc[t] # "idle" => LogRecs(t) \cap disconnected = {}

C18_Witness ==
    \E t \in Workers, u \in Workers :
        /\ pc[t] = "slot"
        /\ \E r \in disconnected : recSignal[r] = cur[t].sig
        /\ pc[u] = "disconnect"
        /\ cur[u].rec = cur[t].rec
        /\ cur[u].op = "connectionDisconnect"

\* C19: from the moment an emission has acquired the Signal's mutex until it
\* ends, the collection is the one it saw at that moment, whatever connects and
\* disconnects other threads have begun; the slots it has invoked so far are the
\* first records of that collection in emission order, each once, the one being
\* called included, and it goes on until it has invoked all of them.
Emitting(t) == pc[t] \in {"forEach", "slot"}

C19_EmissionSeesSnapshot ==
    \A t \in Threads :
        Emitting(t) =>
            LET m == Len(snap[t])
                n == Len(log[t])
            IN  /\ cur[t].op = "emit"
                /\ sigLock[cur[t].sig] = t
                /\ sigConns[cur[t].sig] = snap[t]
                /\ cur[t].idx <= m + 1
                /\ n = IF pc[t] = "slot" THEN cur[t].idx ELSE cur[t].idx - 1
                /\ \A k \in 1..n : log[t][k][1] = snap[t][m + 1 - k]

C19_Witness ==
    \E t \in Workers, u \in Workers :
        /\ pc[t] = "slot"
        /\ Len(snap[t]) = 2
        /\ Len(log[t]) = 1
        /\ pc[u] = "disconnect"
        /\ cur[u].op = "signalDisconnect"
        /\ cur[u].sig = cur[t].sig
        /\ cur[u].rec = snap[t][1]

\* C20: a slot that calls valid() on its own Connection while an emission runs it
\* gets its answer without blocking and the emission completes: no thread blocks
\* for good in that query, and no emission ends with the std::system_error of a
\* mutex locked twice.
AsksValid(t) ==
    /\ cur[t].op = "emit"
    /\ cur[t].rec \in Created
    /\ recSlot[cur[t].rec].kind = "validSelf"

C20_SelfValidQueryReturns ==
    \A t \in Threads :
        AsksValid(t) =>
            /\ pc[t] # "stuck"
            /\ ~(pc[t] = "idle" /\ res[t] = "system_error")

----------------------------------------------------------------------------
\* C21: when the threads call connect, both disconnects, disconnect-all, valid()
\* and emit on one live Signal, with slots that return and call nothing back and
\* with no move and no destruction, then under fair scheduling every call that
\* has begun returns; a thread that owns a record's mutex is inside that record's
\* slot and waits for no mutex (a Signal's mutex is always taken before a
\* record's).
OwnsRecord(t) == \E r \in Recs : recLock[r] = t

----------------------------------------------------------------------------
\* C22: identifiers are never reused, however many connects there are: two
\* records never have the same id, so two Connection handles compare equal only
\* if they reference the same record.
C22_IdsNeverReused ==
    \A r1 \in Created, r2 \in Created : Equal(r1, r2) => r1 = r2

Ended == disconnected \cup cleared

C24_ValidityMonotonic ==
    [][/\ \A r \in Created : ~recValid[r] => ~recValid'[r]
       /\ nRecs' # nRecs => nRecs' = nRecs + 1 /\ recValid'[nRecs']
       /\ \A r \in Recs : (r \in Ended' /\ r \notin Ended) => ~recValid'[r]
       /\ \A r \in Created : ~recValid[r] => invalidate(recValid, r) = recValid
       /\ \A r \in Created : ~invalidate(recValid, r)[r]]_vars

C24_Witness ==
    \E r1 \in Created, r2 \in Created, r3 \in Created :
        /\ r1 < r3 /\ r2 < r3
        /\ ~valid(r1) /\ r1 \in disconnected
        /\ ~valid(r2) /\ r2 \in cleared
        /\ valid(r3)
        /\ recSignal[r2] = recSignal[r3]
        /\ \E t \in Threads : Returned(t, "emit") /\ LogRecs(t) = {r3}

\* C25: a Connection::disconnect() called on a live connection while another
\* thread moves the owning Signal never runs on the moved-from Signal: its step
\* under the Signal's mutex never stops at assert(_valid), and it never returns
\* false while the record is still valid or still in a collection.
DisconnectsLive(t) ==
    /\ pc[t] = "disconnect"
    /\ cur[t].op = "connectionDisconnect"
    /\ cur[t].pre
    /\ sigAlive[cur[t].sig]

C25_DisconnectSafeAgainstMove ==
    [][\A t \in Threads :
          DisconnectsLive(t) =>
              /\ (halted' # halted /\ Free(sigLock, cur[t].sig)) => sigValid[cur[t].sig]
              /\ pc'[t] = "idle" =>
                    /\ ~recValid'[cur[t].rec]
                    /\ \A s \in Sigs : cur[t].rec \notin SeqToSet(sigConns'[s])]_vars

\* C26: move operations always terminate: no thread inside a move waits for a
\* mutex it owns itself (A = move(A)), none blocks for good, and no two threads
\* inside moves wait for each other's mutex (A = move(B) beside B = move(A)).
MoveOps == {"moveConstruct", "moveAssign"}

\* Thread t is at StateLock otherLock{other._stateMutex} and thread u owns that mutex.
WaitsFor(t, u) ==
    /\ cur[t].op \in MoveOps
    /\ pc[t] = "moveOther"
    /\ sigLock[cur[t].src] = u

C26_MovesTerminate ==
    \A t \in Threads :
        /\ cur[t].op \in MoveOps => pc[t] # "stuck"
        /\ ~WaitsFor(t, t)
        /\ \A u \in Threads \ {t} : ~(WaitsFor(t, u) /\ WaitsFor(u, t))

\* C27: the step of a move assignment that takes over the source's collection
\* leaves every record the destination held invalid and out of every collection,
\* the destination holding exactly the source's former collection, the source
\* empty and moved-from and the destination valid, also when the destination had
\* been moved from before; no emission invokes a record removed that way, and an
\* operation stops at assert(_valid) only on a Signal that is moved-from then.
TakesOver(t) ==
    /\ cur[t].op = "moveAssign"
    /\ pc[t] = "invalidateAll"
    /\ cur[t].idx > Visits(sigConns[cur[t].sig])

AtSignalAssert(t) == pc[t] \in {"connect", "disconnect", "emit"} /\ ~sigValid[cur[t].sig]

C27_MoveAssignDisconnectsTarget ==
    [][/\ \A t \in Threads :
            (TakesOver(t) /\ pc'[t] = "updateAll") =>
                LET dst == cur[t].sig
                    src == cur[t].src
                    old == SeqToSet(sigConns[dst])
                IN  /\ \A r \in old : ~recValid'[r] /\ r \in cleared'
                    /\ \A r \in old : \A s \in Sigs : r \notin SeqToSet(sigConns'[s])
                    /\ sigConns'[dst] = sigConns[src]
                    /\ sigConns'[src] = <<>>
                    /\ sigValid'[dst] /\ ~sigValid'[src]
       /\ \A t \in Threads : LogRecs(t) \cap cleared = {}
       /\ (halted = "no" /\ halted' = "assert") => \E t \in Threads : AtSignalAssert(t)]_vars

C27_Witness ==
    \E t \in Threads :
        /\ TakesOver(t)
        /\ Len(sigConns[cur[t].sig]) >= 1
        /\ Len(sigConns[cur[t].src]) >= 2
        /\ \A k \in 1..Len(sigConns[cur[t].sig]) : ~valid(sigConns[cur[t].sig][k])
        /\ \A k \in 1..Len(sigConns[cur[t].src]) : valid(sigConns[cur[t].src][k])

----------------------------------------------------------------------------
\* C28: in the baseline used by one thread, an emission that returns has invoked
\* every Connection of the collection exactly once, with the emitted argument, in
\* connection order (first connected first); the collection is always, in
\* connection order, the records connected to the Signal that no disconnect has
\* returned true for, so a disconnected one is not invoked by a later emission
\* and the others keep their order.
Increasing(q) == \A i \in 1..Len(q) : \A j \in 1..Len(q) : i < j => q[i] < q[j]

C28_BaselineConnectionOrder ==
    /\ \A t \in Threads :
          (Returned(t, "emit") /\ res[t] = "void") =>
              /\ Len(log[t]) = Len(snap[t])
              /\ \A k \in 1..Len(snap[t]) : log[t][k] = <<snap[t][k], cur[t].arg>>
              /\ sigConns[cur[t].sig] = snap[t]
    /\ \A s \in Sigs :
          /\ Increasing(sigConns[s])
          /\ SeqToSet(sigConns[s]) = {r \in Created : recSignal[r] = s /\ r \notin disconnected}
    /\ \A t \in Threads : LogRecs(t) \cap disconnected = {}
    /\ \A r \in Created : valid(r) <=> r \notin disconnected

C28_Witness ==
    \E t \in Threads :
        /\ Returned(t, "emit")
        /\ res[t] = "void"
        /\ Len(log[t]) = 2
        /\ log[t][1][1] = 1
        /\ log[t][2][1] = 3
        /\ 2 \in disconnected
        /\ recSignal[2] = cur[t].sig

\* C29: in the baseline used by several threads, connects on different Signals
\* never give two Connections the same id, so a Signal::disconnect(connection)
\* with a Connection of another Signal returns false: its lookup finds nothing,
\* no collection and no record's validity changes.
Foreign(t) ==
    /\ pc[t] = "disconnect"
    /\ cur[t].op = "signalDisconnect"
    /\ recSignal[cur[t].rec] # cur[t].sig

C29_BaselineForeignDisconnectFails ==
    [][/\ \A r1 \in Created, r2 \in Created : r1 # r2 => recId[r1] # recId[r2]
       /\ \A t \in Threads :
             (Foreign(t) /\ pc'[t] # pc[t]) =>
                 /\ pc'[t] = "idle"
                 /\ UNCHANGED <<sigConns, recValid>>]_vars

====
